---- MODULE Spec2Model ----
(***************************************************************************)
(* Model of the QRadar diagnostic tools                                    *)
(*   qradar_expensive_properties.py  (custom properties, costs in ns)      *)
(*   qradar_expensive_rules.py       (correlation rules, costs in ms)      *)
(* Strings are modelled as sequences of one-character strings.  Accented   *)
(* labels of the source are written without the accent (CRITICO).          *)
(***************************************************************************)
EXTENDS Integers, Sequences, FiniteSets, TLC

VARIABLES pc, domain, all_props, threshold, top_n, filtered, report, prop, result

vars == <<pc, domain, all_props, threshold, top_n, filtered, report, prop, result>>

(***************************************************************************)
(* Bounds of the model                                                     *)
(***************************************************************************)
MaxRecords == 3
MaxTop == 2
MaxTokens == 4

(***************************************************************************)
(* Program constants                                                       *)
(***************************************************************************)
\* qradar_expensive_properties.py THRESHOLDS (nanoseconds)
THRESHOLDS == [critical |-> 500000, high |-> 200000, medium |-> 50000, low |-> 20000]

\* qradar_expensive_rules.py THRESHOLDS: the source keeps seconds (0.100,
\* 0.050, 0.020, 0.010) and every use multiplies by 1000; in IEEE doubles
\* these products are exactly 100.0, 50.0, 20.0 and 10.0 milliseconds.
THRESHOLDS_MS == [critical |-> 100, high |-> 50, medium |-> 20, low |-> 10]

Max2(a, b) == IF a >= b THEN a ELSE b
Min2(a, b) == IF a <= b THEN a ELSE b

(***************************************************************************)
(* analyze_regex                                                           *)
(***************************************************************************)
Issue(level, rule, n) == [level |-> level, rule |-> rule, n |-> n]

\* '.' of the re module matches every character but the newline
NoNewline(p, a, b) == \A x \in a..b : p[x] /= "\n"

\* variant: only `+` accepted as the inner quantifier
HasNestedQuantifier_PlusOnly(p) ==
    \E i \in 1..Len(p) : \E j \in (i+1)..Len(p) : \E k \in (j+1)..(Len(p)-1) :
        /\ p[i] = "("
        /\ p[j] = "+"
        /\ p[k] = ")"
        /\ p[k+1] \in {"+", "*", "?"}
        /\ NoNewline(p, i+1, j-1)
        /\ NoNewline(p, j+1, k-1)

\* re.search(r'\(.*[\+\*].*\)[\+\*\?]', pattern)
HasNestedQuantifier(p) ==
    \E i \in 1..Len(p) : \E j \in (i+1)..Len(p) : \E k \in (j+1)..(Len(p)-1) :
        /\ p[i] = "("
        /\ p[j] \in {"+", "*"}
        /\ p[k] = ")"
        /\ p[k+1] \in {"+", "*", "?"}
        /\ NoNewline(p, i+1, j-1)
        /\ NoNewline(p, j+1, k-1)

\* variant: only the `.*?` alternative
LazyAt_StarOnly(p, i) ==
    i + 2 <= Len(p) /\ p[i] = "." /\ p[i+1] = "*" /\ p[i+2] = "?"

\* r'\.\*\?|\.\+\?' matched at position i
LazyAt(p, i) ==
    i + 2 <= Len(p) /\ p[i] = "." /\ p[i+1] \in {"*", "+"} /\ p[i+2] = "?"

RECURSIVE FindallLazy(_, _, _)
\* re.findall scans from the left and resumes behind each match: the scan
\* standing at i tries the starts below j and leaves the number of matches
\* and the position where it stands then; the range is scanned by halves,
\* the second half from where the first one left the scan.
FindallLazy(p, i, j) ==
    IF i >= j THEN [n |-> 0, next |-> i]
    ELSE IF j = i + 1
         THEN IF LazyAt(p, i) THEN [n |-> 1, next |-> i + 3]
              ELSE [n |-> 0, next |-> i + 1]
    ELSE LET first == FindallLazy(p, i, (i + j) \div 2)
             second == FindallLazy(p, first.next, j)
         IN  [n |-> first.n + second.n, next |-> second.next]

\* len(re.findall(r'\.\*\?|\.\+\?', pattern))
LazyCount(p) == FindallLazy(p, 1, Len(p) + 1).n

\* r'(?<!\[)\.[\*\+](?!\?)' matched at position i
GreedyAt(p, i) ==
    /\ i + 1 <= Len(p)
    /\ p[i] = "."
    /\ p[i+1] \in {"*", "+"}
    /\ (i = 1 \/ p[i-1] /= "[")
    /\ (i + 2 > Len(p) \/ p[i+2] /= "?")

RECURSIVE FindallGreedy(_, _, _)
\* the same scan, a match being two characters long
FindallGreedy(p, i, j) ==
    IF i >= j THEN [n |-> 0, next |-> i]
    ELSE IF j = i + 1
         THEN IF GreedyAt(p, i) THEN [n |-> 1, next |-> i + 2]
              ELSE [n |-> 0, next |-> i + 1]
    ELSE LET first == FindallGreedy(p, i, (i + j) \div 2)
             second == FindallGreedy(p, first.next, j)
         IN  [n |-> first.n + second.n, next |-> second.next]

\* len(re.findall(r'(?<!\[)\.[\*\+](?!\?)', pattern))
GreedyCount(p) == FindallGreedy(p, 1, Len(p) + 1).n

\* pattern.count('|')
PipeCount(p) == Cardinality({i \in 1..Len(p) : p[i] = "|"})

\* re.search(r'\(\?[=!<]', pattern)
HasLookaround(p) ==
    \E i \in 1..(Len(p)-2) :
        p[i] = "(" /\ p[i+1] = "?" /\ p[i+2] \in {"=", "!", "<"}

\* '\\A' in pattern, '\\Z' in pattern
ContainsPair(p, a, b) == \E i \in 1..(Len(p)-1) : p[i] = a /\ p[i+1] = b

\* variant: an anchor asked for at both ends
NoAnchors_BothEnds(p) ==
    /\ ~(Len(p) >= 1 /\ p[1] = "^" /\ p[Len(p)] = "$")
    /\ ~ContainsPair(p, "\\", "A")
    /\ ~ContainsPair(p, "\\", "Z")

NoAnchors(p) ==
    /\ ~(Len(p) >= 1 /\ p[1] = "^")
    /\ ~(Len(p) >= 1 /\ p[Len(p)] = "$")
    /\ ~ContainsPair(p, "\\", "A")
    /\ ~ContainsPair(p, "\\", "Z")

IssueCatastrophic(p) ==
    IF HasNestedQuantifier(p) THEN <<Issue("CRITICO", "catastrophic", 0)>> ELSE <<>>

IssueLazy(p) ==
    IF LazyCount(p) >= 2 THEN <<Issue("ALTO", "lazy", LazyCount(p))>>
    ELSE IF LazyCount(p) = 1 THEN <<Issue("MEDIO", "lazy", 1)>>
    ELSE <<>>

IssueGreedy(p) ==
    IF GreedyCount(p) >= 3 THEN <<Issue("ALTO", "greedy", GreedyCount(p))>>
    ELSE IF GreedyCount(p) >= 1 THEN <<Issue("BAJO", "greedy", GreedyCount(p))>>
    ELSE <<>>

IssueAlternation(p) ==
    IF PipeCount(p) >= 5 THEN <<Issue("ALTO", "alternation", PipeCount(p))>>
    ELSE IF PipeCount(p) >= 2 THEN <<Issue("MEDIO", "alternation", PipeCount(p))>>
    ELSE <<>>

IssueLookaround(p) ==
    IF HasLookaround(p) THEN <<Issue("MEDIO", "lookaround", 0)>> ELSE <<>>

IssueLength(p) ==
    IF Len(p) > 150 THEN <<Issue("BAJO", "length", Len(p))>> ELSE <<>>

IssueAnchors(p) ==
    IF NoAnchors(p) THEN <<Issue("INFO", "anchors", 0)>> ELSE <<>>

\* variant: without the early return on the empty pattern
analyze_regex_NoEarlyReturn(pattern) ==
    IssueCatastrophic(pattern) \o IssueLazy(pattern) \o IssueGreedy(pattern)
        \o IssueAlternation(pattern) \o IssueLookaround(pattern)
        \o IssueLength(pattern) \o IssueAnchors(pattern)

analyze_regex(pattern) ==
    IF pattern = <<>> THEN <<>>
    ELSE IssueCatastrophic(pattern) \o IssueLazy(pattern) \o IssueGreedy(pattern)
         \o IssueAlternation(pattern) \o IssueLookaround(pattern)
         \o IssueLength(pattern) \o IssueAnchors(pattern)

(***************************************************************************)
(* classify_severity (both programs)                                       *)
(***************************************************************************)
\* variant: breakpoints excluded from the higher band
classify_severity_Strict(avg_ns) ==
    IF avg_ns > THRESHOLDS.critical THEN "CRITICO"
    ELSE IF avg_ns > THRESHOLDS.high THEN "ALTO"
    ELSE IF avg_ns > THRESHOLDS.medium THEN "MEDIO"
    ELSE "BAJO"

classify_severity(avg_ns) ==
    IF avg_ns >= THRESHOLDS.critical THEN "CRITICO"
    ELSE IF avg_ns >= THRESHOLDS.high THEN "ALTO"
    ELSE IF avg_ns >= THRESHOLDS.medium THEN "MEDIO"
    ELSE "BAJO"

classify_severity_rule(avg_ms) ==
    IF avg_ms >= THRESHOLDS_MS.critical THEN "CRITICO"
    ELSE IF avg_ms >= THRESHOLDS_MS.high THEN "ALTO"
    ELSE IF avg_ms >= THRESHOLDS_MS.medium THEN "MEDIO"
    ELSE "BAJO"

(***************************************************************************)
(* get_recommendation of qradar_expensive_properties.py                    *)
(***************************************************************************)
Finding(kind, level, n) == [kind |-> kind, level |-> level, n |-> n]

Start == [action |-> "MONITOREAR", priority |-> 4, details |-> <<>>]

Decide(r, action, priority, finding) ==
    [action |-> action, priority |-> priority, details |-> Append(r.details, finding)]

AddFinding(r, finding) == [r EXCEPT !.details = Append(@, finding)]

\* variant: the cancellation branch tried after the cost branches
PrimaryProp_CostFirst(p, r) ==
    IF p.avg_ns >= THRESHOLDS.critical /\ p.times_called > 1000
        THEN Decide(r, "REESCRIBIR", 1, Finding("high_volume", "", p.times_called))
    ELSE IF p.avg_ns >= THRESHOLDS.critical /\ p.times_called < 100
        THEN Decide(r, "REVISAR", 2, Finding("low_volume", "", p.times_called))
    ELSE IF p.avg_ns >= THRESHOLDS.high
        THEN Decide(r, "OPTIMIZAR", 2, Finding("high_cost", "", 0))
    ELSE IF p.cancelled > 0
        THEN Decide(r, "DESHABILITAR", 1, Finding("cancelled", "", p.cancelled))
    ELSE r

\* variant: the critical breakpoint excluded from the high-volume branch
PrimaryProp_StrictCritical(p, r) ==
    IF p.cancelled > 0
        THEN Decide(r, "DESHABILITAR", 1, Finding("cancelled", "", p.cancelled))
    ELSE IF p.avg_ns > THRESHOLDS.critical /\ p.times_called > 1000
        THEN Decide(r, "REESCRIBIR", 1, Finding("high_volume", "", p.times_called))
    ELSE IF p.avg_ns >= THRESHOLDS.critical /\ p.times_called < 100
        THEN Decide(r, "REVISAR", 2, Finding("low_volume", "", p.times_called))
    ELSE IF p.avg_ns >= THRESHOLDS.high
        THEN Decide(r, "OPTIMIZAR", 2, Finding("high_cost", "", 0))
    ELSE r

\* variant: the low-volume branch left out
PrimaryProp_NoLowVolume(p, r) ==
    IF p.cancelled > 0
        THEN Decide(r, "DESHABILITAR", 1, Finding("cancelled", "", p.cancelled))
    ELSE IF p.avg_ns >= THRESHOLDS.critical /\ p.times_called > 1000
        THEN Decide(r, "REESCRIBIR", 1, Finding("high_volume", "", p.times_called))
    ELSE IF p.avg_ns >= THRESHOLDS.high
        THEN Decide(r, "OPTIMIZAR", 2, Finding("high_cost", "", 0))
    ELSE r

\* the if / elif chain of lines 133-173
PrimaryProp(p, r) ==
    IF p.cancelled > 0
        THEN Decide(r, "DESHABILITAR", 1, Finding("cancelled", "", p.cancelled))
    ELSE IF p.avg_ns >= THRESHOLDS.critical /\ p.times_called > 1000
        THEN Decide(r, "REESCRIBIR", 1, Finding("high_volume", "", p.times_called))
    ELSE IF p.avg_ns >= THRESHOLDS.critical /\ p.times_called < 100
        THEN Decide(r, "REVISAR", 2, Finding("low_volume", "", p.times_called))
    ELSE IF p.avg_ns >= THRESHOLDS.high
        THEN Decide(r, "OPTIMIZAR", 2, Finding("high_cost", "", 0))
    ELSE r

\* outcome of a call that raises instead of returning
ZeroDivisionError == [raised |-> "ZeroDivisionError"]

\* divisor of pct_cancel (line 135), evaluated in the cancellation branch
PctCancelDivisor(p) == Max2(p.times_called, 1)

\* variant: the divisor without its guard
VarianceDivisor_NoGuard(p) == p.avg_ns

\* divisor of variance_ratio (line 176), evaluated for every record
VarianceDivisor(p) == Max2(p.avg_ns, 1)

\* the divisions of get_recommendation whose divisor is not a constant
RaisesProp(p) ==
    \/ p.cancelled > 0 /\ PctCancelDivisor(p) = 0
    \/ VarianceDivisor(p) = 0

\* variant: the ratio alone, without the floor on max_ns
PeakProp_NoFloor(p, r) ==
    IF p.max_ns > 20 * VarianceDivisor(p)
        THEN AddFinding(r, Finding("peak", "", 0))
    ELSE r

\* variance_ratio = max_ns / max(avg_ns, 1); variance_ratio > 20 is
\* max_ns > 20 * divisor for a positive divisor
PeakProp(p, r) ==
    IF p.max_ns > 20 * VarianceDivisor(p) /\ p.max_ns > THRESHOLDS.high
        THEN AddFinding(r, Finding("peak", "", 0))
    ELSE r

RECURSIVE IssueFindings(_)
IssueFindings(issues) ==
    IF issues = <<>> THEN <<>>
    ELSE <<Finding(Head(issues).rule, Head(issues).level, Head(issues).n)>>
         \o IssueFindings(Tail(issues))

\* variant: the pattern issues put in front of the other findings
RegexProp_First(p, r) == [r EXCEPT !.details = IssueFindings(analyze_regex(p.pattern)) \o @]

\* the loop of lines 184-187
RegexProp(p, r) == [r EXCEPT !.details = @ \o IssueFindings(analyze_regex(p.pattern))]

\* variant: no default finding
DefaultProp_None(p, r) == r

DefaultProp(p, r) ==
    IF r.details = <<>> THEN AddFinding(r, Finding("default", "", 0)) ELSE r

\* variant: the action escalated, the priority left as it is
FallbackProp_ActionOnly(p, r) ==
    IF r.action = "MONITOREAR" /\ p.avg_ns >= THRESHOLDS.medium
        THEN [r EXCEPT !.action = "REVISAR"]
    ELSE r

\* variant: the escalation applied whatever the action already is
FallbackProp_Always(p, r) ==
    IF p.avg_ns >= THRESHOLDS.medium
        THEN [r EXCEPT !.action = "REVISAR", !.priority = 3]
    ELSE r

\* the final escalation of lines 196-198
FallbackProp(p, r) ==
    IF r.action = "MONITOREAR" /\ p.avg_ns >= THRESHOLDS.medium
        THEN [r EXCEPT !.action = "REVISAR", !.priority = 3]
    ELSE r

\* state of action, priority and recommendations at line 189 and at line 196
PreDefaultProp(p) == RegexProp(p, PeakProp(p, PrimaryProp(p, Start)))
PreFallbackProp(p) == DefaultProp(p, PreDefaultProp(p))

get_recommendation(p) ==
    LET r == FallbackProp(p, PreFallbackProp(p))
    IN  IF RaisesProp(p) THEN ZeroDivisionError
        ELSE [action |-> r.action, priority |-> r.priority, details |-> r.details,
              regex_issues |-> analyze_regex(p.pattern)]

(***************************************************************************)
(* get_recommendation of qradar_expensive_rules.py                         *)
(***************************************************************************)
\* "BB" in name, "BB" in folder
ContainsBB(s) == ContainsPair(s, "B", "B")

\* variant: the building-block branch entered above the high threshold only
PrimaryRule_BBHighOnly(rule, r) ==
    IF rule.avg_test_ms > THRESHOLDS_MS.critical /\ rule.fired_count = 0
       /\ rule.total_test_count > 500
        THEN Decide(r, "DESHABILITAR", 1, Finding("never_fired", "", rule.total_test_count))
    ELSE IF rule.avg_test_ms > THRESHOLDS_MS.critical /\ rule.total_test_count > 1000
        THEN Decide(r, "REESCRIBIR", 1, Finding("high_volume", "", rule.total_test_count))
    ELSE IF ContainsBB(rule.name) \/ ContainsBB(rule.folder)
        THEN IF rule.avg_test_ms > THRESHOLDS_MS.high
                THEN Decide(r, "OPTIMIZAR BB", 2, Finding("building_block", "", 0))
             ELSE r
    ELSE r

\* variant: the high-volume branch tried before the never-fired branch
PrimaryRule_RewriteFirst(rule, r) ==
    IF rule.avg_test_ms > THRESHOLDS_MS.critical /\ rule.total_test_count > 1000
        THEN Decide(r, "REESCRIBIR", 1, Finding("high_volume", "", rule.total_test_count))
    ELSE IF rule.avg_test_ms > THRESHOLDS_MS.critical /\ rule.fired_count = 0
            /\ rule.total_test_count > 500
        THEN Decide(r, "DESHABILITAR", 1, Finding("never_fired", "", rule.total_test_count))
    ELSE IF ContainsBB(rule.name) \/ ContainsBB(rule.folder)
        THEN IF rule.avg_test_ms > THRESHOLDS_MS.medium
                THEN Decide(r, "OPTIMIZAR BB", 2, Finding("building_block", "", 0))
             ELSE r
    ELSE r

\* the if / elif chain of lines 59-89
PrimaryRule(rule, r) ==
    IF rule.avg_test_ms > THRESHOLDS_MS.critical /\ rule.fired_count = 0
       /\ rule.total_test_count > 500
        THEN Decide(r, "DESHABILITAR", 1, Finding("never_fired", "", rule.total_test_count))
    ELSE IF rule.avg_test_ms > THRESHOLDS_MS.critical /\ rule.total_test_count > 1000
        THEN Decide(r, "REESCRIBIR", 1, Finding("high_volume", "", rule.total_test_count))
    ELSE IF ContainsBB(rule.name) \/ ContainsBB(rule.folder)
        THEN IF rule.avg_test_ms > THRESHOLDS_MS.medium
                THEN Decide(r, "OPTIMIZAR BB", 2, Finding("building_block", "", 0))
             ELSE r
    ELSE r

\* divisor of the ratio shown by the peak finding (line 95), in thousandths
\* of a millisecond: max(avg_ms, 0.001)
PeakRatioDivisor(rule) == Max2(1000 * rule.avg_test_ms, 1)

PeakCondition(rule) ==
    /\ rule.alltime_max_ms > rule.avg_test_ms * 10
    /\ rule.alltime_max_ms > THRESHOLDS_MS.high

\* the division of get_recommendation whose divisor is not a constant
RaisesRule(rule) == PeakCondition(rule) /\ PeakRatioDivisor(rule) = 0

PeakRule(rule, r) ==
    IF PeakCondition(rule)
        THEN AddFinding(r, Finding("peak", "", 0))
    ELSE r

CapacityRule(rule, r) ==
    IF rule.capacity_eps > 0 /\ rule.capacity_eps < 500000
        THEN AddFinding(r, Finding("capacity", "", rule.capacity_eps))
    ELSE r

\* variant: the finding appended without the action upgrade
FrequencyRule_NoUpgrade(rule, r) ==
    IF rule.total_test_count > 2000 /\ rule.avg_test_ms > THRESHOLDS_MS.medium
        THEN AddFinding(r, Finding("frequency", "", rule.total_test_count))
    ELSE r

FrequencyRule(rule, r) ==
    IF rule.total_test_count > 2000 /\ rule.avg_test_ms > THRESHOLDS_MS.medium
        THEN AddFinding(IF r.action = "MONITOREAR"
                            THEN [r EXCEPT !.action = "OPTIMIZAR", !.priority = 2]
                        ELSE r,
                        Finding("frequency", "", rule.total_test_count))
    ELSE r

FiredRule(rule, r) ==
    IF rule.fired_count > 1000
        THEN AddFinding(r, Finding("fired", "", rule.fired_count))
    ELSE r

DefaultRule(rule, r) ==
    IF r.details = <<>>
        THEN IF rule.avg_test_ms > THRESHOLDS_MS.medium
                THEN AddFinding(r, Finding("elevated", "", 0))
             ELSE AddFinding(r, Finding("default", "", 0))
    ELSE r

\* variant: the escalation applied whatever the action already is
FallbackRule_Always(rule, r) ==
    IF rule.avg_test_ms > THRESHOLDS_MS.high
        THEN [r EXCEPT !.action = "REVISAR", !.priority = 3]
    ELSE r

FallbackRule(rule, r) ==
    IF r.action = "MONITOREAR" /\ rule.avg_test_ms > THRESHOLDS_MS.high
        THEN [r EXCEPT !.action = "REVISAR", !.priority = 3]
    ELSE r

\* state of action, priority and recommendations at line 125 and at line 138
PreDefaultRule(rule) ==
    FiredRule(rule, FrequencyRule(rule, CapacityRule(rule, PeakRule(rule,
        PrimaryRule(rule, Start)))))
PreFallbackRule(rule) == DefaultRule(rule, PreDefaultRule(rule))

get_recommendation_rule(rule) ==
    LET r == FallbackRule(rule, PreFallbackRule(rule))
    IN  IF RaisesRule(rule) THEN ZeroDivisionError
        ELSE [action |-> r.action, priority |-> r.priority, details |-> r.details]

(***************************************************************************)
(* Filtering and ranking (main of both programs)                           *)
(***************************************************************************)
RECURSIVE SelectIdx(_, _, _)
\* list comprehension [p for p in all if cond]: the kept positions, in order
SelectIdx(n, keep, i) ==
    IF i > n THEN <<>>
    ELSE (IF i \in keep THEN <<i>> ELSE <<>>) \o SelectIdx(n, keep, i + 1)

Reverse(s) == [i \in 1..Len(s) |-> s[Len(s) + 1 - i]]

RECURSIVE LexLess(_, _)
\* tuple comparison of Python: first differing component decides
LexLess(a, b) ==
    IF a = <<>> \/ b = <<>> THEN a = <<>> /\ b /= <<>>
    ELSE IF Head(a) /= Head(b) THEN Head(a) < Head(b)
    ELSE LexLess(Tail(a), Tail(b))

RECURSIVE InsertStable_TiesReversed(_, _, _)
\* variant: x placed in front of the elements with an equal key
InsertStable_TiesReversed(s, x, key) ==
    IF s = <<>> THEN <<x>>
    ELSE IF ~LexLess(key[Head(s)], key[x]) THEN <<x>> \o s
    ELSE <<Head(s)>> \o InsertStable_TiesReversed(Tail(s), x, key)

RECURSIVE InsertStable(_, _, _)
\* place x behind every element whose key is not greater than the key of x
InsertStable(s, x, key) ==
    IF s = <<>> THEN <<x>>
    ELSE IF LexLess(key[x], key[Head(s)]) THEN <<x>> \o s
    ELSE <<Head(s)>> \o InsertStable(Tail(s), x, key)

RECURSIVE StableSort(_, _)
\* list.sort is stable: equal keys keep their relative order
StableSort(s, key) ==
    IF s = <<>> THEN <<>>
    ELSE InsertStable(StableSort(SubSeq(s, 1, Len(s) - 1), key), s[Len(s)], key)

\* key=lambda p: (-(p["cancelled"] > 0), -p["avg_ns"])
PropKey(p) == <<IF p.cancelled > 0 THEN -1 ELSE 0, -p.avg_ns>>

\* variant: the membership test left out
InByValue_Never(props, i, s) == FALSE

\* p not in filtered: list membership compares the dicts by value
InByValue(props, i, s) == \E k \in 1..Len(s) : props[s[k]] = props[i]

RankProps(props, thr) ==
    LET n == Len(props)
        above == SelectIdx(n, {i \in 1..n : props[i].avg_ns >= thr}, 1)
        cancelled == SelectIdx(n, {i \in 1..n : props[i].cancelled > 0
                                                /\ ~InByValue(props, i, above)}, 1)
    IN  StableSort(cancelled \o above, [i \in 1..n |-> PropKey(props[i])])

\* key=lambda r: r["avg_test_ms"]
RuleKey(rule) == <<rule.avg_test_ms>>

\* filtered.sort(key=..., reverse=True): list.sort reverses the list, sorts
\* it ascending and stable, and reverses the result
RankRules(rules, thr) ==
    LET n == Len(rules)
        above == SelectIdx(n, {i \in 1..n : rules[i].avg_test_ms >= thr}, 1)
    IN  Reverse(StableSort(Reverse(above), [i \in 1..n |-> RuleKey(rules[i])]))

(***************************************************************************)
(* generate_html_report: summary counts, display slice and one row per     *)
(* displayed record                                                        *)
(***************************************************************************)
\* sum(1 for p in props_analyzed if cond)
CountIdx(s, keep) == Cardinality({k \in 1..Len(s) : s[k] \in keep})

\* props_analyzed[:top_n]
Slice(s, n) ==
    IF n >= 0 THEN SubSeq(s, 1, Min2(n, Len(s)))
    ELSE SubSeq(s, 1, Max2(Len(s) + n, 0))

\* loop body, lines 288-289
RowProp(p) == [severity |-> classify_severity(p.avg_ns), rec |-> get_recommendation(p)]

\* loop body, lines 257-258
RowRule(rule) == [severity |-> classify_severity_rule(rule.avg_test_ms),
                  rec |-> get_recommendation_rule(rule)]

\* variant: the summary computed over the displayed slice
ReportProps_OverDisplay(props, ranked, n) ==
    LET all == 1..Len(props)
        display == Slice(ranked, n)
    IN  [total |-> Len(display),
         critical_count |-> CountIdx(display, {i \in all : props[i].avg_ns >= THRESHOLDS.critical}),
         high_count |-> CountIdx(display, {i \in all : THRESHOLDS.high <= props[i].avg_ns
                                                        /\ props[i].avg_ns < THRESHOLDS.critical}),
         medium_count |-> CountIdx(display, {i \in all : THRESHOLDS.medium <= props[i].avg_ns
                                                          /\ props[i].avg_ns < THRESHOLDS.high}),
         cancelled_count |-> CountIdx(display, {i \in all : props[i].cancelled > 0}),
         display |-> display,
         rows |-> [k \in 1..Len(display) |-> RowProp(props[display[k]])]]

ReportProps(props, ranked, n) ==
    LET all == 1..Len(props)
        display == Slice(ranked, n)
    IN  [total |-> Len(ranked),
         critical_count |-> CountIdx(ranked, {i \in all : props[i].avg_ns >= THRESHOLDS.critical}),
         high_count |-> CountIdx(ranked, {i \in all : THRESHOLDS.high <= props[i].avg_ns
                                                       /\ props[i].avg_ns < THRESHOLDS.critical}),
         medium_count |-> CountIdx(ranked, {i \in all : THRESHOLDS.medium <= props[i].avg_ns
                                                         /\ props[i].avg_ns < THRESHOLDS.high}),
         cancelled_count |-> CountIdx(ranked, {i \in all : props[i].cancelled > 0}),
         display |-> display,
         rows |-> [k \in 1..Len(display) |-> RowProp(props[display[k]])]]

ReportRules(rules, ranked, n) ==
    LET all == 1..Len(rules)
        display == Slice(ranked, n)
    IN  [total |-> Len(ranked),
         critical_count |-> CountIdx(ranked, {i \in all : rules[i].avg_test_ms >= THRESHOLDS_MS.critical}),
         high_count |-> CountIdx(ranked, {i \in all : THRESHOLDS_MS.high <= rules[i].avg_test_ms
                                                       /\ rules[i].avg_test_ms < THRESHOLDS_MS.critical}),
         medium_count |-> CountIdx(ranked, {i \in all : THRESHOLDS_MS.medium <= rules[i].avg_test_ms
                                                         /\ rules[i].avg_test_ms < THRESHOLDS_MS.high}),
         display |-> display,
         rows |-> [k \in 1..Len(display) |-> RowRule(rules[display[k]])]]

(***************************************************************************)
(* Inputs                                                                  *)
(***************************************************************************)
PatEmpty == <<>>
PatNested == <<"(", "a", "*", ")", "+">>
PatLazy == <<".", "*", "?", "c", "=", ".", "*", "?", "v">>
PatAnchored == <<"^", "s", ".", "*", "e", "$">>
PatPlain == <<"a", "=", ".", "*">>
PatLiteral == <<"^", "a">>

Patterns == {PatEmpty, PatNested, PatLazy, PatAnchored, PatPlain, PatLiteral}

NameRule == <<"R", "u", "l", "e">>
NameBB == <<"B", "B", ":", "x">>
FolderNone == <<>>
FolderBB == <<"B", "B">>

\* records of the recommendation engine, around every breakpoint of the code
PropCosts == {0, 10000, 49999, 50000, 50001, 199999, 200000, 200001, 499999, 500000, 500001}
PropCalls == {0, 99, 100, 1000, 1001}

PropInputs ==
    UNION {{[avg_ns |-> a, max_ns |-> m, min_ns |-> mn, times_called |-> c,
             cancelled |-> x, pattern |-> pt] :
                m \in {0, a, 200000, 200001, 20 * Max2(a, 1), 20 * Max2(a, 1) + 1},
                mn \in {0, 600000}, c \in PropCalls, x \in {0, 5}, pt \in Patterns} :
           a \in PropCosts}

RuleCosts == {0, 19, 20, 21, 49, 50, 51, 99, 100, 101, 150}
RuleTests == {0, 500, 501, 600, 1000, 1001, 2000, 2001}

\* parse_tsv drops the rows with total_test == 0 and avg_test_ms == 0
RuleInputs ==
    UNION {{[avg_test_ms |-> a, alltime_max_ms |-> m, fired_count |-> f,
             total_test_count |-> t, name |-> nm, folder |-> fd, capacity_eps |-> ce] :
                m \in {0, a, 50, 51, 10 * a, 10 * a + 1},
                f \in {0, 1, 1001}, t \in {u \in RuleTests : ~(u = 0 /\ a = 0)},
                nm \in {NameRule, NameBB}, fd \in {FolderNone, FolderBB},
                ce \in {0, 499999, 500000}} :
           a \in RuleCosts}

\* records of the pipeline runs
PipeProp(a, x) ==
    [avg_ns |-> a, max_ns |-> a, min_ns |-> a, times_called |-> 2000,
     cancelled |-> x, pattern |-> PatAnchored]

\* low costs with and without cancellations, and one record in each other band
PipeProps ==
    {PipeProp(a, x) : a \in {10, 500, 999}, x \in {0, 1}}
        \cup {PipeProp(a, 0) : a \in {60000, 250000, 600000}}

PipeRule(a, nm) ==
    [avg_test_ms |-> a, alltime_max_ms |-> a, fired_count |-> 0,
     total_test_count |-> 600, name |-> nm, folder |-> FolderNone, capacity_eps |-> 0]

PipeRules ==
    {PipeRule(a, nm) : a \in {15, 60, 150}, nm \in {NameRule, NameBB}}
        \cup {PipeRule(30, NameRule)}

PropThresholds == {0, 500, 1000}
RuleThresholds == {0, 10, 60}

SeqsUpTo(S, n) == UNION {[1..k -> S] : k \in 0..n}

NoReport == [rows |-> <<>>]
NoRecord == [none |-> TRUE]
NoResult == [none |-> TRUE]

(***************************************************************************)
(* Specification of a run of main                                          *)
(***************************************************************************)
Init ==
    /\ pc = "parsed"
    /\ domain \in {"properties", "rules"}
    /\ all_props \in SeqsUpTo(IF domain = "properties" THEN PipeProps ELSE PipeRules, MaxRecords)
    /\ threshold \in (IF domain = "properties" THEN PropThresholds ELSE RuleThresholds)
    /\ top_n \in 0..MaxTop
    /\ filtered = <<>>
    /\ report = NoReport
    /\ prop = NoRecord
    /\ result = NoResult

\* if not all_props: sys.exit(1)
ExitEmpty ==
    /\ pc = "parsed"
    /\ all_props = <<>>
    /\ pc' = "exit"
    /\ UNCHANGED <<domain, all_props, threshold, top_n, filtered, report, prop, result>>

\* variant: the input collection itself filtered and sorted
FilterSortProps_InPlace ==
    /\ pc = "parsed"
    /\ domain = "properties"
    /\ all_props /= <<>>
    /\ LET ranked == RankProps(all_props, threshold)
       IN  /\ all_props' = [k \in 1..Len(ranked) |-> all_props[ranked[k]]]
           /\ filtered' = [k \in 1..Len(ranked) |-> k]
    /\ pc' = "ranked"
    /\ UNCHANGED <<domain, threshold, top_n, report, prop, result>>

\* qradar_expensive_properties.py lines 567-571
FilterSortProps ==
    /\ pc = "parsed"
    /\ domain = "properties"
    /\ all_props /= <<>>
    /\ filtered' = RankProps(all_props, threshold)
    /\ pc' = "ranked"
    /\ UNCHANGED <<domain, all_props, threshold, top_n, report, prop, result>>

\* qradar_expensive_rules.py lines 547-553
FilterSortRules ==
    /\ pc = "parsed"
    /\ domain = "rules"
    /\ all_props /= <<>>
    /\ filtered' = RankRules(all_props, threshold)
    /\ pc' = "ranked"
    /\ UNCHANGED <<domain, all_props, threshold, top_n, report, prop, result>>

GenerateReportProps ==
    /\ pc = "ranked"
    /\ domain = "properties"
    /\ report' = ReportProps(all_props, filtered, top_n)
    /\ pc' = "reported"
    /\ UNCHANGED <<domain, all_props, threshold, top_n, filtered, prop, result>>

GenerateReportRules ==
    /\ pc = "ranked"
    /\ domain = "rules"
    /\ report' = ReportRules(all_props, filtered, top_n)
    /\ pc' = "reported"
    /\ UNCHANGED <<domain, all_props, threshold, top_n, filtered, prop, result>>

Next ==
    \/ ExitEmpty
    \/ FilterSortProps
    \/ FilterSortRules
    \/ GenerateReportProps
    \/ GenerateReportRules

Spec == Init /\ [][Next]_vars

(***************************************************************************)
(* Specification of the engine applied to one record                       *)
(***************************************************************************)
InitEngine ==
    /\ pc = "call"
    /\ domain \in {"properties", "rules"}
    /\ prop \in (IF domain = "properties" THEN PropInputs ELSE RuleInputs)
    /\ result = NoResult
    /\ all_props = <<>>
    /\ threshold = 0
    /\ top_n = 0
    /\ filtered = <<>>
    /\ report = NoReport

EvaluateProp ==
    /\ pc = "call"
    /\ domain = "properties"
    /\ result' = RowProp(prop)
    /\ pc' = "return"
    /\ UNCHANGED <<domain, all_props, threshold, top_n, filtered, report, prop>>

EvaluateRule ==
    /\ pc = "call"
    /\ domain = "rules"
    /\ result' = RowRule(prop)
    /\ pc' = "return"
    /\ UNCHANGED <<domain, all_props, threshold, top_n, filtered, report, prop>>

NextEngine ==
    \/ EvaluateProp
    \/ EvaluateRule

SpecEngine == InitEngine /\ [][NextEngine]_vars

(***************************************************************************)
(* Specification of analyze_regex applied to one pattern                   *)
(***************************************************************************)
PatLazyExample == <<".", "*", "?", "c", "a", "m", "p", "o", "=", ".", "*", "?", "v", "a", "l", "o", "r">>
PatAnchoredExample == <<"^", "s", "t", "a", "r", "t", ".", "*", "e", "n", "d", "$">>
PatLong150 == [i \in 1..150 |-> "a"]
PatLong151 == [i \in 1..151 |-> "a"]
\* a pattern on which the seven rules fire together
PatAll == <<"(", "a", "*", ")", "+", ".", "*", "?", ".", "*", "|", "|", "(", "?", "=", "a", ")">> \o PatLong150

RECURSIVE Flatten(_)
\* the string made of the pieces of ts, in order
Flatten(ts) == IF ts = <<>> THEN <<>> ELSE Head(ts) \o Flatten(Tail(ts))

\* pieces the patterns are built from, one family per group of rules
TokQuantifier == {<<".", "*">>, <<".", "+">>, <<"?">>, <<"[">>, <<"]">>, <<"a">>}
TokGroup == {<<"(">>, <<")">>, <<"*">>, <<"+">>, <<"?">>, <<"(", "a", ")">>, <<"\n">>}
TokAnchor == {<<"^">>, <<"$">>, <<"\\">>, <<"A">>, <<"Z">>, <<"a">>}
TokAlternation == {<<"|">>, <<"|", "|", "|">>, <<"(", "?", "=">>, <<"(", "?">>, <<"<">>, <<"a">>}

PatternsOf(tokens) == {Flatten(ts) : ts \in SeqsUpTo(tokens, MaxTokens)}

RegexInputs ==
    PatternsOf(TokQuantifier) \cup PatternsOf(TokGroup) \cup PatternsOf(TokAnchor)
        \cup PatternsOf(TokAlternation)
        \cup {PatNested, PatLazyExample, PatAnchoredExample, PatLong150, PatLong151, PatAll}

InitRegex ==
    /\ pc = "analyze"
    /\ domain = "properties"
    /\ prop \in {[pattern |-> pt] : pt \in RegexInputs}
    /\ result = NoResult
    /\ all_props = <<>>
    /\ threshold = 0
    /\ top_n = 0
    /\ filtered = <<>>
    /\ report = NoReport

\* regex_issues = analyze_regex(pattern), line 131
AnalyzeRegex ==
    /\ pc = "analyze"
    /\ result' = [issues |-> analyze_regex(prop.pattern)]
    /\ pc' = "analyzed"
    /\ UNCHANGED <<domain, all_props, threshold, top_n, filtered, report, prop>>

NextRegex == AnalyzeRegex

SpecRegex == InitRegex /\ [][NextRegex]_vars

(***************************************************************************)
(* Properties                                                              *)
(***************************************************************************)
Returned == pc = "return"
ReturnedProp == pc = "return" /\ domain = "properties"
ReturnedRule == pc = "return" /\ domain = "rules"
Ranked == pc \in {"ranked", "reported"}

IsBB(rule) == ContainsBB(rule.name) \/ ContainsBB(rule.folder)

Gives(action, priority) == result.rec.action = action /\ result.rec.priority = priority

\* C1: a property with cancellations (cancelled > 0) is always recommended
\* DESHABILITAR with priority 1, whatever its cost, volume and pattern.
C1_FailureOverride ==
    (ReturnedProp /\ prop.cancelled > 0) => Gives("DESHABILITAR", 1)

C1_Witness ==
    /\ ReturnedProp
    /\ prop.cancelled = 5 /\ prop.times_called = 100 /\ prop.avg_ns = 10000
    /\ Gives("DESHABILITAR", 1)

\* C2: classify_severity returns exactly one of the four bands, each band
\* being the half-open interval between its breakpoint (included) and the
\* next one (excluded): 500000/200000/50000 ns and 100/50/20 ms.
C2_Bands(c, s, critical, high, medium) ==
    /\ s \in {"CRITICO", "ALTO", "MEDIO", "BAJO"}
    /\ (s = "CRITICO") = (c >= critical)
    /\ (s = "ALTO") = (c >= high /\ c < critical)
    /\ (s = "MEDIO") = (c >= medium /\ c < high)
    /\ (s = "BAJO") = (c < medium)

C2_SeverityBands ==
    /\ ReturnedProp => C2_Bands(prop.avg_ns, result.severity, 500000, 200000, 50000)
    /\ ReturnedRule => C2_Bands(prop.avg_test_ms, result.severity, 100, 50, 20)

C2_Witness ==
    /\ ReturnedProp
    /\ prop.avg_ns = 200000
    /\ result.severity = "ALTO"

\* C3: a rule in the CRITICAL band of classify_severity that never fired and
\* was tested more than 500 times is recommended DESHABILITAR, priority 1.
C3_CostWithoutValue ==
    (ReturnedRule /\ result.severity = "CRITICO" /\ prop.fired_count = 0
        /\ prop.total_test_count > 500)
    => Gives("DESHABILITAR", 1)

\* C4: in the ranked sequence failures come before non-failures, within the
\* same failure presence the cost is descending, and equal costs keep the
\* input order; rules are ranked by descending cost with input-order ties.
C4_Failure(p) == domain = "properties" /\ p.cancelled > 0
C4_Cost(p) == IF domain = "properties" THEN p.avg_ns ELSE p.avg_test_ms

C4_ExampleInput ==
    /\ domain = "properties"
    /\ threshold = 0
    /\ Len(all_props) = 3
    /\ all_props[1].avg_ns = 10 /\ all_props[1].cancelled = 0
    /\ all_props[2].avg_ns = 999 /\ all_props[2].cancelled = 1
    /\ all_props[3].avg_ns = 500 /\ all_props[3].cancelled = 0

C4_RankingOrder ==
    Ranked =>
        /\ \A i \in 1..Len(filtered) : \A j \in (i+1)..Len(filtered) :
            LET a == all_props[filtered[i]]
                b == all_props[filtered[j]]
            IN  /\ C4_Failure(b) => C4_Failure(a)
                /\ (C4_Failure(a) = C4_Failure(b)) => C4_Cost(a) >= C4_Cost(b)
                /\ (C4_Failure(a) = C4_Failure(b) /\ C4_Cost(a) = C4_Cost(b))
                        => filtered[i] < filtered[j]
        /\ C4_ExampleInput => filtered = <<2, 3, 1>>

C4_Witness ==
    /\ Ranked
    /\ C4_ExampleInput
    /\ filtered = <<2, 3, 1>>

\* C5: the ranked properties are exactly the records at or above the
\* threshold together with the records with cancellations, each input
\* record once; the ranked rules are exactly the records at or above the
\* threshold.
C5_Members == {filtered[k] : k \in 1..Len(filtered)}

C5_FailuresNeverHidden ==
    Ranked =>
        /\ Cardinality(C5_Members) = Len(filtered)
        /\ domain = "properties" =>
            /\ C5_Members = {i \in 1..Len(all_props) :
                                all_props[i].avg_ns >= threshold \/ all_props[i].cancelled > 0}
            /\ Cardinality({k \in 1..Len(filtered) : all_props[filtered[k]].cancelled > 0})
                 = Cardinality({i \in 1..Len(all_props) : all_props[i].cancelled > 0})
        /\ domain = "rules" =>
            C5_Members = {i \in 1..Len(all_props) : all_props[i].avg_test_ms >= threshold}

C5_Witness ==
    /\ Ranked
    /\ domain = "properties"
    /\ \E i \in C5_Members : all_props[i].cancelled > 0 /\ all_props[i].avg_ns < threshold
    /\ \E i \in C5_Members : all_props[i].cancelled > 0 /\ all_props[i].avg_ns >= threshold
    /\ \E i \in 1..Len(all_props) : i \notin C5_Members

\* C6 (as stated): in either domain a HIGH-band record to which no earlier
\* primary rule applies gets OPTIMIZAR with priority 2, whatever its count.
C6_HighGivesOptimize ==
    /\ (ReturnedProp /\ result.severity = "ALTO" /\ prop.cancelled = 0)
            => Gives("OPTIMIZAR", 2)
    /\ (ReturnedRule /\ result.severity = "ALTO" /\ ~IsBB(prop))
            => Gives("OPTIMIZAR", 2)

\* C6 (amended): a HIGH-band property without cancellations gets OPTIMIZAR
\* priority 2; a HIGH-band rule without the BB marker gets OPTIMIZAR
\* priority 2 only when tested more than 2000 times, otherwise REVISAR
\* priority 3 above 50 ms and MONITOREAR priority 4 at exactly 50 ms.
C6_HighBandAction ==
    /\ (ReturnedProp /\ result.severity = "ALTO" /\ prop.cancelled = 0)
            => Gives("OPTIMIZAR", 2)
    /\ (ReturnedRule /\ result.severity = "ALTO" /\ ~IsBB(prop)) =>
            IF prop.total_test_count > 2000 THEN Gives("OPTIMIZAR", 2)
            ELSE IF prop.avg_test_ms > 50 THEN Gives("REVISAR", 3)
            ELSE Gives("MONITOREAR", 4)

C6_Witness ==
    /\ ReturnedRule
    /\ result.severity = "ALTO" /\ ~IsBB(prop)
    /\ prop.total_test_count > 2000
    /\ Gives("OPTIMIZAR", 2)

\* C7 (as stated): in both domains a record whose action is still MONITOREAR
\* after the primary and supplementary rules ends REVISAR priority 3 when its
\* cost is at or above the MEDIUM threshold and MONITOREAR priority 4 below
\* it; an action set earlier is never replaced.
C7_Pre == IF domain = "properties" THEN PreFallbackProp(prop) ELSE PreFallbackRule(prop)

C7_Kept == C7_Pre.action /= "MONITOREAR" => Gives(C7_Pre.action, C7_Pre.priority)

C7_FallbackAtMedium ==
    /\ (ReturnedProp /\ C7_Pre.action = "MONITOREAR") =>
            IF prop.avg_ns >= 50000 THEN Gives("REVISAR", 3) ELSE Gives("MONITOREAR", 4)
    /\ (ReturnedRule /\ C7_Pre.action = "MONITOREAR") =>
            IF prop.avg_test_ms >= 20 THEN Gives("REVISAR", 3) ELSE Gives("MONITOREAR", 4)
    /\ Returned => C7_Kept

\* C7 (amended): a property still at MONITOREAR ends REVISAR priority 3 when
\* its cost is at or above 50000 ns and MONITOREAR priority 4 below; a rule
\* still at MONITOREAR ends REVISAR priority 3 only when its cost is above
\* 50 ms (the HIGH threshold, excluded) and MONITOREAR priority 4 otherwise;
\* an action set earlier is never replaced.
C7_Fallback ==
    /\ (ReturnedProp /\ C7_Pre.action = "MONITOREAR") =>
            IF prop.avg_ns >= 50000 THEN Gives("REVISAR", 3) ELSE Gives("MONITOREAR", 4)
    /\ (ReturnedRule /\ C7_Pre.action = "MONITOREAR") =>
            IF prop.avg_test_ms > 50 THEN Gives("REVISAR", 3) ELSE Gives("MONITOREAR", 4)
    /\ Returned => C7_Kept

C7_Witness ==
    /\ ReturnedRule
    /\ C7_Pre.action = "MONITOREAR"
    /\ prop.avg_test_ms = 21
    /\ Gives("MONITOREAR", 4)

\* C8: a property without cancellations, with a cost of at least 500000 ns
\* and more than 1000 calls is recommended REESCRIBIR with priority 1.
C8_HighVolumeRewrite ==
    (ReturnedProp /\ prop.cancelled = 0 /\ prop.avg_ns >= 500000 /\ prop.times_called > 1000)
    => Gives("REESCRIBIR", 1)

C8_Witness ==
    /\ ReturnedProp
    /\ prop.cancelled = 0 /\ prop.avg_ns = 500000 /\ prop.times_called = 1001
    /\ Gives("REESCRIBIR", 1)

\* C9: a property without cancellations, with a cost in the CRITICAL band and
\* fewer than 100 calls is recommended REVISAR with priority 2.
C9_LowVolumeReview ==
    (ReturnedProp /\ prop.cancelled = 0 /\ result.severity = "CRITICO"
        /\ prop.times_called < 100)
    => Gives("REVISAR", 2)

C9_Witness ==
    /\ ReturnedProp
    /\ prop.cancelled = 0 /\ prop.avg_ns = 500000 /\ prop.times_called = 99
    /\ Gives("REVISAR", 2)

\* C10: the list of findings is never empty; when no rule and no pattern
\* issue appended a finding it holds exactly one finding, the one of the
\* "sin recomendaciones especificas" block, and that finding appears in no
\* other case.
C10_PreDefault == IF domain = "properties" THEN PreDefaultProp(prop) ELSE PreDefaultRule(prop)

C10_IsDefault(f) == f.kind \in {"default", "elevated"}

C10_FindingsNeverEmpty ==
    Returned =>
        /\ Len(result.rec.details) >= 1
        /\ C10_PreDefault.details = <<>> =>
            /\ Len(result.rec.details) = 1
            /\ C10_IsDefault(result.rec.details[1])
        /\ C10_PreDefault.details /= <<>> =>
            /\ result.rec.details = C10_PreDefault.details
            /\ \A k \in 1..Len(result.rec.details) : ~C10_IsDefault(result.rec.details[k])

C10_Witness ==
    /\ ReturnedProp
    /\ prop.cancelled = 0 /\ prop.avg_ns = 10000 /\ prop.pattern = PatLiteral
    /\ Len(result.rec.details) = 1
    /\ result.rec.details[1].kind = "default"

\* C11: get_recommendation returns for every record, without raising, one
\* recommendation whose action is one of the six actions, also when the
\* average cost is 0 with a positive maximum, when the call count is 0 with
\* cancellations, and when min <= avg <= max does not hold.
C11_Actions ==
    {"DESHABILITAR", "REESCRIBIR", "REVISAR", "OPTIMIZAR", "OPTIMIZAR BB", "MONITOREAR"}

C11_Totality ==
    Returned =>
        /\ DOMAIN result.rec \in {{"action", "priority", "details"},
                                  {"action", "priority", "details", "regex_issues"}}
        /\ result.rec.action \in C11_Actions
        /\ result.rec.priority \in 1..4
        /\ DOMAIN result.rec.details = 1..Len(result.rec.details)

C11_Witness ==
    /\ ReturnedProp
    /\ prop.avg_ns = 0 /\ prop.max_ns > 0 /\ prop.min_ns > prop.max_ns
    /\ prop.times_called = 0 /\ prop.cancelled > 0
    /\ result.rec.action \in C11_Actions

\* C12: the report details the first min(N, |S|) records of the ranked
\* sequence S, in ranked order, while the total, the CRITICO / ALTO / MEDIO
\* counts and the count of cancellations are those of the whole of S; the
\* three band counts and the BAJO records add up to |S|.
Reported == pc = "reported"

C12_Cost(k) ==
    IF domain = "properties" THEN all_props[filtered[k]].avg_ns
    ELSE all_props[filtered[k]].avg_test_ms

C12_Band(k) ==
    IF domain = "properties"
        THEN (IF C12_Cost(k) >= 500000 THEN "CRITICO" ELSE IF C12_Cost(k) >= 200000 THEN "ALTO"
              ELSE IF C12_Cost(k) >= 50000 THEN "MEDIO" ELSE "BAJO")
    ELSE (IF C12_Cost(k) >= 100 THEN "CRITICO" ELSE IF C12_Cost(k) >= 50 THEN "ALTO"
          ELSE IF C12_Cost(k) >= 20 THEN "MEDIO" ELSE "BAJO")

C12_InBand(b) == Cardinality({k \in 1..Len(filtered) : C12_Band(k) = b})

C12_Shown == IF top_n <= Len(filtered) THEN top_n ELSE Len(filtered)

C12_CountsIgnoreTruncation ==
    (Reported /\ top_n >= 0) =>
        /\ Len(report.rows) = C12_Shown
        /\ report.display = [k \in 1..C12_Shown |-> filtered[k]]
        /\ \A k \in 1..C12_Shown : report.rows[k].severity = C12_Band(k)
        /\ report.total = Len(filtered)
        /\ report.critical_count = C12_InBand("CRITICO")
        /\ report.high_count = C12_InBand("ALTO")
        /\ report.medium_count = C12_InBand("MEDIO")
        /\ report.critical_count + report.high_count + report.medium_count
              + C12_InBand("BAJO") = Len(filtered)
        /\ domain = "properties" =>
              report.cancelled_count
                 = Cardinality({k \in 1..Len(filtered) : all_props[filtered[k]].cancelled > 0})

C12_Witness ==
    /\ Reported
    /\ domain = "properties"
    /\ top_n = 1 /\ Len(filtered) = 3 /\ Len(report.rows) = 1
    /\ report.total = 3
    /\ report.critical_count = 1 /\ report.high_count = 1 /\ report.cancelled_count = 1
    /\ all_props[filtered[1]].cancelled > 0

Analyzed == pc = "analyzed"

IssuesOf(rule) == SelectSeq(result.issues, LAMBDA x : x.rule = rule)

\* C14 (as stated): on "(a*)+" analyze_regex returns the CRITICO issue of
\* nested quantifiers and no issue of the lazy, alternation, lookaround,
\* length and anchors rules.
C14_NestedExampleAlone ==
    (Analyzed /\ prop.pattern = PatNested) =>
        /\ IssuesOf("catastrophic") = <<Issue("CRITICO", "catastrophic", 0)>>
        /\ \A k \in 1..Len(result.issues) : result.issues[k].rule \in {"catastrophic", "greedy"}

\* C14 (amended): on "(a*)+" analyze_regex returns exactly two issues, the
\* CRITICO issue of nested quantifiers followed by the INFO issue of the
\* missing anchors; the lazy, greedy, alternation, lookaround and length
\* rules do not fire.
C14_NestedExample ==
    (Analyzed /\ prop.pattern = PatNested) =>
        result.issues = <<Issue("CRITICO", "catastrophic", 0), Issue("INFO", "anchors", 0)>>

C14_Witness ==
    /\ Analyzed
    /\ prop.pattern = PatNested
    /\ Len(result.issues) = 2
    /\ result.issues[2].level = "INFO"

\* C15: with n the number of places where `.*?` or `.+?` stands, there is one
\* ALTO lazy issue carrying n when n >= 2, one MEDIO lazy issue when n = 1 and
\* none when n = 0; a pattern whose `.*` and `.+` are all lazy has no greedy
\* issue; ".*?campo=.*?valor" gives one ALTO lazy issue with n = 2.
C15_LazyPlaces(p) ==
    {i \in 1..(Len(p) - 2) : p[i] = "." /\ p[i+1] \in {"*", "+"} /\ p[i+2] = "?"}

C15_WidePlaces(p) == {i \in 1..(Len(p) - 1) : p[i] = "." /\ p[i+1] \in {"*", "+"}}

C15_LazyRule ==
    Analyzed =>
        LET n == Cardinality(C15_LazyPlaces(prop.pattern))
        IN  /\ n >= 2 => IssuesOf("lazy") = <<Issue("ALTO", "lazy", n)>>
            /\ n = 1 => IssuesOf("lazy") = <<Issue("MEDIO", "lazy", 1)>>
            /\ n = 0 => IssuesOf("lazy") = <<>>
            /\ C15_WidePlaces(prop.pattern) = C15_LazyPlaces(prop.pattern)
                    => IssuesOf("greedy") = <<>>
            /\ prop.pattern = PatLazyExample =>
                    /\ IssuesOf("lazy") = <<Issue("ALTO", "lazy", 2)>>
                    /\ IssuesOf("greedy") = <<>>

C15_Witness ==
    /\ Analyzed
    /\ prop.pattern = PatLazyExample
    /\ IssuesOf("lazy") = <<Issue("ALTO", "lazy", 2)>>

\* C16: the INFO issue of the missing anchors is returned exactly when the
\* pattern is not empty, does not start with ^, does not end with $ and holds
\* neither \A nor \Z; "^start.*end$" has no such issue and has one BAJO
\* greedy issue with count 1.
C16_Holds(p, a, b) == \E i \in 1..(Len(p) - 1) : p[i] = a /\ p[i+1] = b

C16_Unanchored(p) ==
    /\ p /= <<>>
    /\ p[1] /= "^"
    /\ p[Len(p)] /= "$"
    /\ ~C16_Holds(p, "\\", "A")
    /\ ~C16_Holds(p, "\\", "Z")

C16_MissingAnchors ==
    Analyzed =>
        /\ IF C16_Unanchored(prop.pattern)
              THEN IssuesOf("anchors") = <<Issue("INFO", "anchors", 0)>>
              ELSE IssuesOf("anchors") = <<>>
        /\ prop.pattern = PatAnchoredExample =>
              result.issues = <<Issue("BAJO", "greedy", 1)>>

C16_Witness ==
    /\ Analyzed
    /\ prop.pattern = PatAnchoredExample
    /\ result.issues = <<Issue("BAJO", "greedy", 1)>>

\* C17: the CRITICO issue is returned exactly when the pattern holds a
\* parenthesized group that contains `*` or `+` and whose closing parenthesis
\* is directly followed by `*`, `+` or `?`; a quantifier standing between two
\* groups does not count; the issue is returned at most once.  Stated for
\* one-line patterns with balanced parentheses.
\* opening minus closing parentheses of p[a..x]
C17_Level(p, a, x) ==
    Cardinality({y \in a..x : p[y] = "("}) - Cardinality({y \in a..x : p[y] = ")"})

\* nesting depth behind p[a..b] when starting at depth d, -1 once a closing
\* parenthesis has no opening one
C17_Depth(p, a, b, d) ==
    IF \E x \in a..b : d + C17_Level(p, a, x) < 0 THEN -1
    ELSE d + C17_Level(p, a, b)

C17_Group(p, i, k) == p[i] = "(" /\ p[k] = ")" /\ C17_Depth(p, i + 1, k - 1, 0) = 0

C17_OneLineBalanced(p) ==
    /\ C17_Depth(p, 1, Len(p), 0) = 0
    /\ \A x \in 1..Len(p) : p[x] /= "\n"

C17_QuantifiedGroup(p) ==
    \E i \in 1..Len(p) : \E k \in (i+1)..(Len(p) - 1) :
        /\ C17_Group(p, i, k)
        /\ \E j \in (i+1)..(k-1) : p[j] \in {"*", "+"}
        /\ p[k+1] \in {"*", "+", "?"}

C17_NestedGroupOnly ==
    (Analyzed /\ C17_OneLineBalanced(prop.pattern)) =>
        IF C17_QuantifiedGroup(prop.pattern)
            THEN IssuesOf("catastrophic") = <<Issue("CRITICO", "catastrophic", 0)>>
            ELSE IssuesOf("catastrophic") = <<>>

\* C18: with n the number of `.*` or `.+` that are not directly followed by
\* `?` and do not stand inside a character class [...], at any place of the
\* class, there is one ALTO greedy issue when n >= 3, one BAJO greedy issue
\* when n is 1 or 2 and none when n = 0.  Stated for patterns whose brackets
\* pair up.
C18_InClass(p, i) ==
    \E b \in 1..(i-1) :
        /\ p[b] = "["
        /\ \A c \in (b+1)..(i-1) : p[c] /= "]"
        /\ \E c \in (i+2)..Len(p) : p[c] = "]"

\* opening minus closing brackets of p[1..x]
C18_Open(p, x) ==
    Cardinality({y \in 1..x : p[y] = "["}) - Cardinality({y \in 1..x : p[y] = "]"})

\* the brackets of p alternate [ ] [ ] ... and the last one is closed
C18_Paired(p) ==
    /\ \A x \in 1..Len(p) : C18_Open(p, x) \in {0, 1}
    /\ C18_Open(p, Len(p)) = 0

C18_GreedyPlaces(p) ==
    {i \in 1..(Len(p) - 1) :
        /\ p[i] = "." /\ p[i+1] \in {"*", "+"}
        /\ (i + 2 > Len(p) \/ p[i+2] /= "?")
        /\ ~C18_InClass(p, i)}

C18_GreedyOutsideClass ==
    (Analyzed /\ C18_Paired(prop.pattern)) =>
        LET n == Cardinality(C18_GreedyPlaces(prop.pattern))
        IN  /\ n >= 3 => IssuesOf("greedy") = <<Issue("ALTO", "greedy", n)>>
            /\ n \in {1, 2} => IssuesOf("greedy") = <<Issue("BAJO", "greedy", n)>>
            /\ n = 0 => IssuesOf("greedy") = <<>>

\* C19: analyze_regex returns at most one issue per rule, in the order
\* catastrophic, lazy, greedy, alternation, lookaround, length, anchors, each
\* rule firing on its own condition whatever the other rules do (so up to
\* seven issues); the empty pattern gives no issue at all.
C19_Order ==
    <<"catastrophic", "lazy", "greedy", "alternation", "lookaround", "length", "anchors">>

C19_Rank(rule) == CHOOSE k \in 1..7 : C19_Order[k] = rule

C19_Fires(rule) == IssuesOf(rule) /= <<>>

C19_OutputShape ==
    Analyzed =>
        /\ Len(result.issues) <= 7
        /\ \A k \in 1..Len(result.issues) : \E r \in 1..7 : C19_Order[r] = result.issues[k].rule
        /\ \A a \in 1..Len(result.issues) : \A b \in (a+1)..Len(result.issues) :
                C19_Rank(result.issues[a].rule) < C19_Rank(result.issues[b].rule)
        /\ prop.pattern = <<>> => result.issues = <<>>
        /\ prop.pattern /= <<>> =>
            /\ C19_Fires("catastrophic") = HasNestedQuantifier(prop.pattern)
            /\ C19_Fires("lazy") = (C15_LazyPlaces(prop.pattern) /= {})
            /\ C19_Fires("greedy") = (GreedyCount(prop.pattern) >= 1)
            /\ C19_Fires("alternation")
                  = (Cardinality({i \in 1..Len(prop.pattern) : prop.pattern[i] = "|"}) >= 2)
            /\ C19_Fires("lookaround") = HasLookaround(prop.pattern)
            /\ C19_Fires("length") = (Len(prop.pattern) > 150)
            /\ C19_Fires("anchors") = C16_Unanchored(prop.pattern)

C19_Witness ==
    /\ Analyzed
    /\ prop.pattern = PatAll
    /\ Len(result.issues) = 7
    /\ result.issues[1].rule = "catastrophic"
    /\ result.issues[7].rule = "anchors"

\* C20: for every rule tested more than 2000 times with an average cost of
\* at least 20 ms (the MEDIUM threshold) the filtering-order finding is
\* appended and an action still at MONITOREAR becomes OPTIMIZAR priority 2,
\* any other action being kept; when the condition is false there is neither
\* the finding nor the upgrade.
C20_HasFinding == \E k \in 1..Len(result.rec.details) : result.rec.details[k].kind = "frequency"

C20_Primary == PrimaryRule(prop, Start)

C20_HighFrequency ==
    ReturnedRule =>
        IF prop.total_test_count > 2000 /\ prop.avg_test_ms >= 20
            THEN /\ C20_HasFinding
                 /\ IF C20_Primary.action = "MONITOREAR" THEN Gives("OPTIMIZAR", 2)
                    ELSE Gives(C20_Primary.action, C20_Primary.priority)
            ELSE /\ ~C20_HasFinding
                 /\ C20_Primary.action /= "MONITOREAR"
                        => Gives(C20_Primary.action, C20_Primary.priority)
                 /\ C20_Primary.action = "MONITOREAR"
                        => result.rec.action \in {"MONITOREAR", "REVISAR"}

\* C21: a rule whose name or folder contains "BB" and whose cost is in the
\* ALTO band is recommended OPTIMIZAR BB priority 2; OPTIMIZAR BB is given
\* exactly to the building blocks that cost more than 20 ms and are taken by
\* neither the never-fired nor the high-volume branch (so also in the MEDIO
\* band above 20 ms and in the CRITICO band), always with priority 2, and
\* never to a property.
C21_TakenEarlier(rule) ==
    \/ rule.avg_test_ms > 100 /\ rule.fired_count = 0 /\ rule.total_test_count > 500
    \/ rule.avg_test_ms > 100 /\ rule.total_test_count > 1000

C21_BuildingBlock ==
    /\ ReturnedRule =>
        /\ (IsBB(prop) /\ result.severity = "ALTO") => Gives("OPTIMIZAR BB", 2)
        /\ (result.rec.action = "OPTIMIZAR BB")
              = (IsBB(prop) /\ prop.avg_test_ms > 20 /\ ~C21_TakenEarlier(prop))
        /\ result.rec.action = "OPTIMIZAR BB" => result.rec.priority = 2
    /\ ReturnedProp => result.rec.action /= "OPTIMIZAR BB"

C21_Witness ==
    /\ ReturnedRule
    /\ IsBB(prop)
    /\ prop.avg_test_ms = 21
    /\ result.severity = "MEDIO"
    /\ Gives("OPTIMIZAR BB", 2)

\* C21 as first stated: OPTIMIZAR BB priority 2 for the building blocks of
\* the ALTO band, and OPTIMIZAR BB only in the ALTO band and only for rules.
C21_BuildingBlockHighOnly ==
    /\ ReturnedRule =>
        /\ (IsBB(prop) /\ result.severity = "ALTO") => Gives("OPTIMIZAR BB", 2)
        /\ result.rec.action = "OPTIMIZAR BB" => result.severity = "ALTO"
    /\ ReturnedProp => result.rec.action /= "OPTIMIZAR BB"

\* C22: the peak finding is appended exactly when the peak is more than 20
\* times max(avg_ns, 1) and above 200000 ns (properties), more than 10 times
\* the average and above 50 ms (rules); it is appended whichever primary
\* branch was taken, and the action and the priority are those of the same
\* record without a peak.
C22_HasPeak == \E k \in 1..Len(result.rec.details) : result.rec.details[k].kind = "peak"

C22_NoPeakProp == get_recommendation([prop EXCEPT !.max_ns = 0])

C22_NoPeakRule == get_recommendation_rule([prop EXCEPT !.alltime_max_ms = 0])

C22_PeakFinding ==
    /\ ReturnedProp =>
        /\ C22_HasPeak = (prop.max_ns > 20 * (IF prop.avg_ns >= 1 THEN prop.avg_ns ELSE 1)
                            /\ prop.max_ns > 200000)
        /\ Gives(C22_NoPeakProp.action, C22_NoPeakProp.priority)
    /\ ReturnedRule =>
        /\ C22_HasPeak = (prop.alltime_max_ms > 10 * prop.avg_test_ms
                            /\ prop.alltime_max_ms > 50)
        /\ Gives(C22_NoPeakRule.action, C22_NoPeakRule.priority)

\* a property with cancellations, disabled, that carries the peak finding
C22_Witness ==
    /\ ReturnedProp
    /\ prop.cancelled > 0
    /\ prop.avg_ns = 10000 /\ prop.max_ns = 200001
    /\ Gives("DESHABILITAR", 1)
    /\ C22_HasPeak

\* C23: the findings of a property end with one finding per issue returned
\* by analyze_regex, in the analyzer's order and tagged with the issue's
\* level; only primary and peak findings come before them; action and
\* priority are those of the same record with a pattern without issues.
C23_Issues == analyze_regex(prop.pattern)

C23_First == Len(result.rec.details) - Len(C23_Issues)

C23_PlainPattern == get_recommendation([prop EXCEPT !.pattern = PatLiteral])

C23_IssuesAreFindingsOnly ==
    ReturnedProp =>
        /\ result.rec.regex_issues = C23_Issues
        /\ C23_Issues /= <<>> =>
            /\ C23_First >= 0
            /\ \A k \in 1..Len(C23_Issues) :
                  /\ result.rec.details[C23_First + k].kind = C23_Issues[k].rule
                  /\ result.rec.details[C23_First + k].level = C23_Issues[k].level
            /\ \A k \in 1..C23_First :
                  result.rec.details[k].kind
                      \in {"cancelled", "high_volume", "low_volume", "high_cost", "peak"}
            /\ \A k \in 1..(C23_First - 1) : result.rec.details[k].kind /= "peak"
        /\ Gives(C23_PlainPattern.action, C23_PlainPattern.priority)

\* a cheap property with a CRITICO pattern issue stays at MONITOREAR
C23_Witness ==
    /\ ReturnedProp
    /\ prop.pattern = PatNested
    /\ prop.avg_ns = 10000 /\ prop.cancelled = 0
    /\ Gives("MONITOREAR", 4)
    /\ \E k \in 1..Len(result.rec.details) :
          result.rec.details[k].kind = "catastrophic" /\ result.rec.details[k].level = "CRITICO"

\* C24: the records are read-only input: no step of a run (filtering and
\* ranking, then the calls of classify_severity and get_recommendation that
\* produce the report) changes the input collection, neither its records
\* nor their order; the ranking is a new sequence that refers to records of
\* the input, and producing the report leaves it as it is.
C24_InputKept ==
    /\ all_props' = all_props
    /\ pc = "ranked" => filtered' = filtered
    /\ \A k \in 1..Len(filtered') : filtered'[k] \in 1..Len(all_props)

C24_ReadOnlyRecords == [][C24_InputKept]_vars

\* a run whose ranking differs from the input order and whose report is made
C24_Witness ==
    /\ pc = "reported"
    /\ domain = "properties"
    /\ Len(all_props) = 3
    /\ filtered = <<3, 1, 2>>
    /\ Len(report.rows) = 2

\* C25: the pair (action, priority) returned for a record of either domain
\* is one of (DESHABILITAR, 1), (REESCRIBIR, 1), (OPTIMIZAR, 2),
\* (OPTIMIZAR BB, 2), (REVISAR, 2), (REVISAR, 3), (MONITOREAR, 4); so the
\* priority is 4 exactly for MONITOREAR and 1 only for DESHABILITAR and
\* REESCRIBIR.
C25_Pairs ==
    {<<"DESHABILITAR", 1>>, <<"REESCRIBIR", 1>>, <<"OPTIMIZAR", 2>>, <<"OPTIMIZAR BB", 2>>,
     <<"REVISAR", 2>>, <<"REVISAR", 3>>, <<"MONITOREAR", 4>>}

C25_ActionPriorityAgree ==
    Returned =>
        /\ <<result.rec.action, result.rec.priority>> \in C25_Pairs
        /\ (result.rec.priority = 4) = (result.rec.action = "MONITOREAR")
        /\ result.rec.priority = 1 => result.rec.action \in {"DESHABILITAR", "REESCRIBIR"}

\* a property escalated by the final rule
C25_Witness ==
    /\ ReturnedProp
    /\ prop.avg_ns = 50000 /\ prop.cancelled = 0
    /\ Gives("REVISAR", 3)

\* C26: a record whose band is CRITICO or ALTO (cost at or above the high
\* threshold) is not left at MONITOREAR and has a priority of at most 3.
C26_NoExpensiveAtMonitor ==
    (Returned /\ result.severity \in {"CRITICO", "ALTO"}) =>
        /\ result.rec.action /= "MONITOREAR"
        /\ result.rec.priority <= 3

\* C27: the priority never gets less urgent when only the average cost of a
\* record grows: the same record with any higher cost gets a priority that is
\* not larger than the one returned.
C27_HigherCostsProp == {a \in PropCosts : a > prop.avg_ns}

C27_HigherCostsRule == {a \in RuleCosts : a > prop.avg_test_ms}

C27_UrgencyMonotone ==
    /\ ReturnedProp =>
        \A a \in C27_HigherCostsProp :
            get_recommendation([prop EXCEPT !.avg_ns = a]).priority <= result.rec.priority
    /\ ReturnedRule =>
        \A a \in C27_HigherCostsRule :
            get_recommendation_rule([prop EXCEPT !.avg_test_ms = a]).priority
                <= result.rec.priority

\* a record at priority 2 whose costlier twin is at priority 1
C27_Witness ==
    /\ ReturnedProp
    /\ prop.avg_ns = 200000 /\ prop.times_called = 1001 /\ prop.cancelled = 0
    /\ Gives("OPTIMIZAR", 2)
    /\ get_recommendation([prop EXCEPT !.avg_ns = 500000]).priority = 1

\* C28: when the findings consist of the "within acceptable range" finding
\* alone, the action is MONITOREAR with priority 4.
C28_DefaultMeansMonitor ==
    (Returned /\ Len(result.rec.details) = 1 /\ result.rec.details[1].kind = "default")
        => Gives("MONITOREAR", 4)

\* C29: a rule is recommended REESCRIBIR exactly when it fired, costs more
\* than 100 ms and was tested more than 1000 times; a rule that never fired
\* never is.
C29_RewriteOnlyIfFired ==
    ReturnedRule =>
        /\ (result.rec.action = "REESCRIBIR")
              = (prop.fired_count > 0 /\ prop.avg_test_ms > 100 /\ prop.total_test_count > 1000)
        /\ prop.fired_count = 0 => result.rec.action /= "REESCRIBIR"
        /\ (prop.fired_count = 0 /\ prop.avg_test_ms > 100 /\ prop.total_test_count > 1000)
              => Gives("DESHABILITAR", 1)

C29_Witness ==
    /\ ReturnedRule
    /\ prop.fired_count = 1 /\ prop.avg_test_ms = 101 /\ prop.total_test_count = 1001
    /\ Gives("REESCRIBIR", 1)

====
